---- MODULE Spec2Model ----
(***************************************************************************)
(* InMemorySearchProvider (src/plugins/plot/configuration/ConfigStore.js,  *)
(* lines 398-918): the index scheduler, the indexer, the change observers, *)
(* the local execution backend, the query coordinator and the teardown     *)
(* handler; and AnnotationAPI (same file, lines 95-372).                   *)
(*                                                                         *)
(* Strings that the code inspects character by character (object names and *)
(* name queries) are sequences of one-character strings.  Every await of   *)
(* the code is a suspension point: the code up to the await is one action, *)
(* the resumption is another.                                              *)
(***************************************************************************)
EXTENDS Integers, Sequences, FiniteSets, Bags, TLC

(***************************************************************************)
(* Bounds.  The two ceilings are fields set by the constructor (100 each,  *)
(* lines 410 and 414); the model scales them down so that a backlog larger *)
(* than the ceiling and a match list longer than the default cap occur.    *)
(***************************************************************************)
MAX_CONCURRENT_REQUESTS == 2
DEFAULT_MAX_RESULTS == 2
MaxMutations == 1
MaxNotifications == 2
MaxQueries == 2
MaxWideQueries == 1
MaxMaxResults == 3
MaxAnnotations == 2
MaxCalls == 2
MaxOps == 3

(***************************************************************************)
(* The object graph source (external collaborator).                        *)
(***************************************************************************)
ROOT == "ROOT"
Keys == {ROOT, "a", "b", "c", "n", "s"}
NativeSearchKeys == {"s"}
AnnotationKeys == {"n"}
Tags == {"t1", "t2", "t3"}

Type(k) == IF k = ROOT THEN "root" ELSE IF k \in AnnotationKeys THEN "annotation" ELSE "folder"

HasComposition(k) == k \notin AnnotationKeys

InitialName(k) ==
    CASE k = ROOT -> <<"R">>
      [] k = "a" -> <<"A", "b">>
      [] k = "b" -> <<"b", "a">>
      [] k = "c" -> <<"a", " ", "B">>
      [] k = "n" -> <<"a">>
      [] OTHER   -> <<"B">>

InitialComposition(k) ==
    CASE k = ROOT -> <<"a", "b", "s">>
      [] k = "a" -> <<"c">>
      [] OTHER   -> <<>>

NewNames == {<<"B", "a">>}
\* the objects whose name, and the parents whose composition, the environment mutates
RenamedKeys == {"a", "n"}
MutatedParents == {ROOT, "b"}

AnnotationTargets(k) == IF k \in AnnotationKeys THEN [t \in {"a"} |-> [entryId |-> "e1"]] ELSE <<>>
AnnotationTags(k) == IF k \in AnnotationKeys THEN <<"t1", "t2">> ELSE <<>>

VARIABLES
    store,              \* the object store: key -> [name, composition]
    indexedIds,         \* keys with a name observer      (this.indexedIds)
    indexedCompositions,\* keys with a composition observer
    bound,              \* key -> the domainObject its observers are bound to
    idsToIndex,         \* the FIFO queue of keyStrings
    pendingIndex,       \* the pending set
    pendingRequests,    \* the active count
    fetching,           \* bag of keys: beginIndexRequest awaiting objects.get
    failedFetches,      \* bag of keys: beginIndexRequest ended by a rejected get
    loading,            \* bag of index() calls awaiting composition.load()
    resuming,           \* beginIndexRequest calls whose index() has settled: line 717 is next
    timers,             \* number of setTimeout callbacks not yet run
    cmFetching,         \* bag of keys: onCompositionMutation awaiting objects.get
    localIndexedDomainObjects,
    localIndexedAnnotationsByDomainObject,
    localIndexedAnnotationsByTag,
    mutations,          \* number of mutation notifications delivered
    started,            \* the 'start' event has been handled
    queryCount,         \* number of query ids minted (uuid(): each one is fresh)
    pendingQueries,     \* the query ids that have a record in this.pendingQueries
    hydrating,          \* the result messages onWorkerMessage is hydrating
    delivered,          \* query id -> the values its resolve callback was called with
    destroyed,          \* the 'destroy' event has been handled
    registered,         \* bag of <<key, property>>: the observers registered so far
    released,           \* bag of <<key, property>>: the calls of an observer's handle
    calls,              \* AnnotationAPI: the calls made, each with its stage and outcome
    saved,              \* the annotation objects the object store has saved
    emitted,            \* the events AnnotationAPI has emitted
    configStore,        \* ConfigStore: this.store, id -> config
    destroyCalls,       \* config -> the number of calls of its destroy method
    added,              \* id -> the config the callers last added and have not deleted since
    returned,           \* the value the last call of get returned
    lastCall,           \* the last call made on the ConfigStore
    ops                 \* the number of calls made on the ConfigStore

schedVars == <<idsToIndex, pendingIndex, pendingRequests, fetching>>
indexVars == <<localIndexedDomainObjects, localIndexedAnnotationsByDomainObject,
               localIndexedAnnotationsByTag>>
observerVars == <<indexedIds, indexedCompositions, bound, destroyed, registered, released>>
queryVars == <<queryCount, pendingQueries, hydrating, delivered>>
annotationVars == <<calls, saved, emitted>>
configVars == <<configStore, destroyCalls, added, returned, lastCall, ops>>
providerVars == <<store, observerVars, schedVars, failedFetches, loading, resuming, timers,
                  cmFetching, indexVars, mutations, started, queryVars>>

vars == <<store, indexedIds, indexedCompositions, bound, idsToIndex, pendingIndex,
          pendingRequests, fetching, failedFetches, loading, resuming, timers, cmFetching,
          localIndexedDomainObjects, localIndexedAnnotationsByDomainObject,
          localIndexedAnnotationsByTag, mutations, started, queryCount,
          pendingQueries, hydrating, delivered, destroyed, registered, released,
          calls, saved, emitted, configStore, destroyCalls, added, returned, lastCall, ops>>

NoObject == [identifier |-> "", type |-> "", name |-> <<>>, hasComposition |-> FALSE,
             composition |-> <<>>, targets |-> <<>>, tags |-> <<>>]

\* The domain object objects.get(k) resolves with: a copy of the stored object.
DomainObject(k) ==
    [identifier |-> k, type |-> Type(k), name |-> store[k].name,
     hasComposition |-> HasComposition(k), composition |-> store[k].composition,
     targets |-> AnnotationTargets(k), tags |-> AnnotationTags(k)]

BagAdd(b, e) == b (+) SetToBag({e})
BagRemove(b, e) == b (-) SetToBag({e})
BagCount(b, e) == IF e \in DOMAIN b THEN b[e] ELSE 0
BagSize(b) == BagCardinality(b)

RECURSIVE SeqToSet(_)
SeqToSet(s) == IF s = <<>> THEN {} ELSE {Head(s)} \cup SeqToSet(Tail(s))

(***************************************************************************)
(* The scheduler, as functions of the scheduler state                      *)
(*   st = [idsToIndex, pendingIndex, pendingRequests, fetching].           *)
(***************************************************************************)
SchedState ==
    [idsToIndex |-> idsToIndex, pendingIndex |-> pendingIndex,
     pendingRequests |-> pendingRequests, fetching |-> fetching]

\* no provider has a search of its own
ProviderNeverHasSearch(k) == FALSE

\* getProvider(identifier).search !== undefined
ProviderHasSearch(k) == k \in NativeSearchKeys

\* beginIndexRequest taking the identifier that arrived last
BeginIndexRequestFromBack(st) ==
    [st EXCEPT !.idsToIndex = SubSeq(st.idsToIndex, 1, Len(st.idsToIndex) - 1),
               !.pendingRequests = st.pendingRequests + 1,
               !.fetching = BagAdd(st.fetching, st.idsToIndex[Len(st.idsToIndex)])]

\* beginIndexRequest up to its first await (lines 702-706)
BeginIndexRequest(st) ==
    [st EXCEPT !.idsToIndex = Tail(st.idsToIndex),
               !.pendingRequests = st.pendingRequests + 1,
               !.fetching = BagAdd(st.fetching, Head(st.idsToIndex))]

\* keepIndexing with the comparison off by one
MayBeginUpToCeiling(st) ==
    st.pendingRequests <= MAX_CONCURRENT_REQUESTS /\ Len(st.idsToIndex) > 0

\* the loop condition of keepIndexing (lines 621-622)
MayBegin(st) ==
    st.pendingRequests < MAX_CONCURRENT_REQUESTS /\ Len(st.idsToIndex) > 0

\* keepIndexing stopping one request short of the ceiling
RECURSIVE KeepIndexingBelowCeiling(_)
KeepIndexingBelowCeiling(st) ==
    IF st.pendingRequests + 1 < MAX_CONCURRENT_REQUESTS /\ Len(st.idsToIndex) > 0
    THEN KeepIndexingBelowCeiling(BeginIndexRequest(st))
    ELSE st

\* keepIndexing (lines 620-626)
RECURSIVE KeepIndexing(_)
KeepIndexing(st) == IF MayBegin(st) THEN KeepIndexing(BeginIndexRequest(st)) ELSE st

\* scheduleForIndexing without the test of the pending set
ShouldEnqueueIgnoringPending(st, indexed, k) ==
    /\ k \notin NativeSearchKeys
    /\ k \notin indexed

\* the condition under which scheduleForIndexing enqueues (lines 604-605)
ShouldEnqueue(st, indexed, k) ==
    /\ ~ProviderHasSearch(k)
    /\ k \notin indexed
    /\ k \notin st.pendingIndex

ScheduleForIndexing(st, indexed, k) ==
    KeepIndexing(
        IF ShouldEnqueue(st, indexed, k)
        THEN [st EXCEPT !.pendingIndex = st.pendingIndex \cup {k},
                        !.idsToIndex = Append(st.idsToIndex, k)]
        ELSE st)

RECURSIVE ScheduleAll(_, _, _)
ScheduleAll(st, indexed, ks) ==
    IF ks = <<>> THEN st
    ELSE ScheduleAll(ScheduleForIndexing(st, indexed, Head(ks)), indexed, Tail(ks))

SetSched(st) ==
    /\ idsToIndex' = st.idsToIndex
    /\ pendingIndex' = st.pendingIndex
    /\ pendingRequests' = st.pendingRequests
    /\ fetching' = st.fetching

(***************************************************************************)
(* The local index (localIndexItem, lines 743-776).                        *)
(***************************************************************************)
IndexState ==
    [objects |-> localIndexedDomainObjects,
     byTarget |-> localIndexedAnnotationsByDomainObject,
     byTag |-> localIndexedAnnotationsByTag]

\* this.localIndexedDomainObjects[keyString] = objectToIndex: an existing key
\* keeps its place in the enumeration order, a new one goes last.
PutEntry(entries, e) ==
    IF \E i \in 1..Len(entries) : entries[i].keyString = e.keyString
    THEN [i \in 1..Len(entries) |->
            IF entries[i].keyString = e.keyString THEN e ELSE entries[i]]
    ELSE Append(entries, e)

LocalIndexItem(ix, keyString, model) ==
    IF model.type = "annotation"
    THEN LET e == [keyString |-> keyString, type |-> model.type, name |-> model.name,
                   targets |-> model.targets, tags |-> model.tags]
         IN [ix EXCEPT
               !.byTarget = [t \in DOMAIN ix.byTarget |->
                    IF t \in DOMAIN model.targets
                    THEN Append(ix.byTarget[t], e) ELSE ix.byTarget[t]],
               !.byTag = [t \in DOMAIN ix.byTag |->
                    \* one push per occurrence of the tag in model.tags
                    ix.byTag[t] \o [i \in 1..Cardinality({j \in 1..Len(model.tags) :
                                                           model.tags[j] = t}) |-> e]]]
    ELSE [ix EXCEPT !.objects =
            PutEntry(ix.objects, [keyString |-> keyString, type |-> model.type,
                                  name |-> model.name])]

SetIndex(ix) ==
    /\ localIndexedDomainObjects' = ix.objects
    /\ localIndexedAnnotationsByDomainObject' = ix.byTarget
    /\ localIndexedAnnotationsByTag' = ix.byTag

(***************************************************************************)
(* The indexer (index, lines 656-692) up to its await of composition.load. *)
(***************************************************************************)
Observers ==
    [ids |-> indexedIds, comps |-> indexedCompositions, bound |-> bound,
     registered |-> registered]

\* lines 664 and 669: the callbacks of the two observers are bound to the
\* object index was called with
Bind(objects, k, domainObject) ==
    [x \in DOMAIN objects \cup {k} |-> IF x = k THEN domainObject ELSE objects[x]]

\* index registering its two observers at every call
RegisterObserversAtEveryCall(obs, domainObject) ==
    LET k == domainObject.identifier IN
    [ids |-> obs.ids \cup {k}, comps |-> obs.comps \cup {k},
     bound |-> Bind(obs.bound, k, domainObject),
     registered |-> BagAdd(BagAdd(obs.registered, <<k, "name">>), <<k, "composition">>)]

\* lines 660-671: the two observers are registered when the key is not in indexedIds
RegisterObservers(obs, domainObject) ==
    LET k == domainObject.identifier IN
    IF k \notin obs.ids
    THEN [ids |-> obs.ids \cup {k}, comps |-> obs.comps \cup {k},
          bound |-> Bind(obs.bound, k, domainObject),
          registered |-> BagAdd(BagAdd(obs.registered, <<k, "name">>),
                                <<k, "composition">>)]
    ELSE obs

SetObservers(obs) ==
    /\ indexedIds' = obs.ids
    /\ indexedCompositions' = obs.comps
    /\ bound' = obs.bound
    /\ registered' = obs.registered
    /\ UNCHANGED <<destroyed, released>>

\* index forwarding every object, the root included
ForwardToBackendAlways(ix, domainObject) ==
    LocalIndexItem(ix, domainObject.identifier, domainObject)

\* lines 673-683: the root is not forwarded to the backend
ForwardToBackend(ix, domainObject) ==
    IF domainObject.identifier # ROOT
    THEN LocalIndexItem(ix, domainObject.identifier, domainObject)
    ELSE ix

\* index that resolves no child of the composition
LoadTaskWithoutChildren(domainObject, fromRequest) ==
    [key |-> domainObject.identifier, children |-> <<>>, request |-> fromRequest]

\* lines 685-690: the call of index that awaits composition.load(), with the
\* children the load will resolve with
LoadTask(domainObject, fromRequest) ==
    [key |-> domainObject.identifier, children |-> domainObject.composition,
     request |-> fromRequest]

\* index(domainObject) called with observers obs, up to its await of the load
\* or, without a composition, to its end; fromRequest tells whether
\* beginIndexRequest awaits it at line 711.  The promise of index is settled
\* when index ends, and beginIndexRequest resumes a turn of the microtask
\* queue later.
Index(obs, domainObject, fromRequest) ==
    /\ SetObservers(RegisterObservers(obs, domainObject))
    /\ SetIndex(ForwardToBackend(IndexState, domainObject))
    /\ IF domainObject.hasComposition
       THEN /\ loading' = BagAdd(loading, LoadTask(domainObject, fromRequest))
            /\ resuming' = resuming
       ELSE /\ loading' = loading
            /\ resuming' = IF fromRequest THEN resuming + 1 ELSE resuming

(***************************************************************************)
(* The local execution backend (lines 785-907).                            *)
(***************************************************************************)
\* String.prototype.toLowerCase, trim and includes on the model's strings
LowerChar(c) == CASE c = "A" -> "a" [] c = "B" -> "b" [] c = "R" -> "r" [] OTHER -> c

ToLowerCase(str) == [i \in 1..Len(str) |-> LowerChar(str[i])]

RECURSIVE TrimStart(_)
TrimStart(str) ==
    IF str # <<>> /\ Head(str) = " " THEN TrimStart(Tail(str)) ELSE str

RECURSIVE TrimEnd(_)
TrimEnd(str) ==
    IF str # <<>> /\ str[Len(str)] = " "
    THEN TrimEnd(SubSeq(str, 1, Len(str) - 1)) ELSE str

Trim(str) == TrimEnd(TrimStart(str))

Includes(str, part) ==
    \E i \in 1..(Len(str) - Len(part) + 1) : SubSeq(str, i, i + Len(part) - 1) = part

\* Array.prototype.slice(0, n) for n >= 0
Slice(arr, n) == SubSeq(arr, 1, IF n < Len(arr) THEN n ELSE Len(arr))

\* an element of a result list that is the value undefined
UndefinedHit == [undefined |-> TRUE]
IsUndefinedHit(hit) == "undefined" \in DOMAIN hit

\* lines 801-806 (and 830-835, 864-869, 900-905): the result message
Message(request, queryId, results, maxResults) ==
    [request |-> request, queryId |-> queryId, total |-> Len(results),
     results |-> Slice(results, maxResults)]

Returned(message) == [threw |-> FALSE, message |-> message]
Threw == [threw |-> TRUE]

\* a name search that compares the names as they are written
NameMatchesCaseSensitive(ix, searchInput) ==
    LET input == ToLowerCase(Trim(searchInput))
    IN SelectSeq(ix.objects, LAMBDA indexedItem : Includes(indexedItem.name, input))

\* lines 789-799: the matches of a name search
NameMatches(ix, searchInput) ==
    LET input == ToLowerCase(Trim(searchInput))
    IN SelectSeq(ix.objects, LAMBDA indexedItem : Includes(ToLowerCase(indexedItem.name), input))

LocalSearchForObjects(ix, queryId, searchInput, maxResults) ==
    Returned(Message("searchForObjects", queryId, NameMatches(ix, searchInput), maxResults))

\* lines 828-830: a target without a list is undefined, and reading its length throws
LocalSearchForAnnotations(ix, queryId, searchInput, maxResults) ==
    IF ix.byTarget[searchInput] = <<>>
    THEN Threw
    ELSE Returned(Message("searchForAnnotations", queryId, ix.byTarget[searchInput],
                          maxResults))

\* a tag search that returns each annotation once
RECURSIVE TagMatchesDeduplicated(_, _)
TagMatchesDeduplicated(ix, matchingTagKeys) ==
    IF matchingTagKeys = <<>> THEN <<>>
    ELSE LET front == TagMatchesDeduplicated(ix, SubSeq(matchingTagKeys, 1,
                                                        Len(matchingTagKeys) - 1))
             last == ix.byTag[matchingTagKeys[Len(matchingTagKeys)]]
         IN front \o SelectSeq(IF last = <<>> THEN <<UndefinedHit>> ELSE last,
                               LAMBDA e : \A i \in 1..Len(front) : front[i] # e)

\* lines 857-862: results.concat(undefined) appends the value undefined
RECURSIVE TagMatches(_, _)
TagMatches(ix, matchingTagKeys) ==
    IF matchingTagKeys = <<>> THEN <<>>
    ELSE LET matchingAnnotations == ix.byTag[Head(matchingTagKeys)]
         IN (IF matchingAnnotations = <<>> THEN <<UndefinedHit>> ELSE matchingAnnotations)
                \o TagMatches(ix, Tail(matchingTagKeys))

LocalSearchForTags(ix, queryId, matchingTagKeys, maxResults) ==
    Returned(Message("searchForTags", queryId, TagMatches(ix, matchingTagKeys), maxResults))

\* a notebook-entry search that returns every annotation of the target
NotebookMatchesAnyEntry(ix, input) == ix.byTarget[input.targetKeyString]

\* lines 891-898: target && target.entryId && (target.entryId === entryId),
\* where a missing entryId and the empty string are falsy
NotebookMatches(ix, input) ==
    SelectSeq(ix.byTarget[input.targetKeyString],
              LAMBDA matchingAnnotation :
                  /\ input.targetKeyString \in DOMAIN matchingAnnotation.targets
                  /\ "entryId" \in DOMAIN matchingAnnotation.targets[input.targetKeyString]
                  /\ matchingAnnotation.targets[input.targetKeyString].entryId # ""
                  /\ matchingAnnotation.targets[input.targetKeyString].entryId = input.entryId)

LocalSearchForNotebookAnnotations(ix, queryId, input, maxResults) ==
    Returned(Message("searchForNotebookAnnotations", queryId, NotebookMatches(ix, input),
                     maxResults))

(***************************************************************************)
(* The query coordinator (search, lines 499-515; onWorkerMessage, 544-559).*)
(* An optional argument is <<>> when it is not given and <<v>> when it is. *)
(***************************************************************************)
\* lines 500-502
EffectiveMaxResults(maxResults) ==
    IF maxResults = <<>> \/ maxResults[1] = 0 THEN DEFAULT_MAX_RESULTS ELSE maxResults[1]

\* line 511 with lines 524-538: the local fallback of the query type
LocalQueryFallBack(ix, queryType, queryId, input, maxResults) ==
    CASE queryType = "searchForObjects" ->
            LocalSearchForObjects(ix, queryId, input, maxResults)
      [] queryType = "searchForAnnotations" ->
            LocalSearchForAnnotations(ix, queryId, input, maxResults)
      [] queryType = "searchForTags" ->
            LocalSearchForTags(ix, queryId, input, maxResults)
      [] queryType = "searchForNotebookAnnotations" ->
            LocalSearchForNotebookAnnotations(ix, queryId, input, maxResults)

\* onWorkerMessage resolving the oldest record instead of the message's own
OldestPendingQuery(pending, message) ==
    IF pending = {} THEN message.queryId
    ELSE CHOOSE q \in pending : \A r \in pending : q <= r

\* onWorkerMessage keeping the record it has resolved
KeepQuery(pending, message) == pending

\* line 546: the record onWorkerMessage will resolve
PendingQueryOf(pending, message) == message.queryId

\* line 558
DeleteQuery(pending, message) == pending \ {message.queryId}

\* lines 550-555 when every objects.get resolves: one object per hit, in order
Hits(message) == [i \in 1..Len(message.results) |-> message.results[i].keyString]

\* lines 547-557: the value the promise is resolved with.  The fields from,
\* request and inFlight record which message produced it and which other
\* queries were awaiting their result at that moment.
ModelResults(message, others) ==
    [total |-> message.total, hits |-> Hits(message), from |-> message.queryId,
     request |-> message.request, inFlight |-> {m.queryId : m \in others}]

\* the calls the callers make
NameQueries == {<<>>, <<"a">>, <<"a", "B">>, <<"a", " ">>, <<" ", "B">>, <<"B", "b">>}
TargetInputs == {"a", "b"}
TagInputs == {<<>>, <<"t1">>, <<"t1", "t2">>, <<"t2", "t1">>, <<"t3">>}
NotebookInputs == {[entryId |-> "e1", targetKeyString |-> "a"],
                   [entryId |-> "e2", targetKeyString |-> "a"],
                   [entryId |-> "e1", targetKeyString |-> "b"]}
MaxResultsArgs == {<<>>} \cup {<<n>> : n \in 0..MaxMaxResults}

InputsOf(queryType) ==
    CASE queryType = "searchForObjects" -> NameQueries
      [] queryType = "searchForAnnotations" -> TargetInputs
      [] queryType = "searchForTags" -> TagInputs
      [] queryType = "searchForNotebookAnnotations" -> NotebookInputs

QueryTypes == {"searchForObjects", "searchForAnnotations", "searchForTags",
               "searchForNotebookAnnotations"}

(***************************************************************************)
(* ConfigStore (lines 22-61).  A config is an object with a destroy method *)
(* ("c1", "c2"), an object without one ("c3"), or null.                    *)
(***************************************************************************)
ConfigIds == {"x", "y"}
Null == "null"
Undefined == "undefined"
Configs == {"c1", "c2", "c3", Null}

\* obj.destroy is a method of the objects c1 and c2
HasDestroy(obj) == obj \in {"c1", "c2"}

\* if (obj)
Truthy(obj) == obj \notin {Undefined, Null}

\* lines 23-26: the constructor
ConfigStoreConstructed ==
    /\ configStore = <<>>
    /\ destroyCalls = [c \in Configs |-> 0]
    /\ added = [id \in ConfigIds |-> Undefined]
    /\ returned = Undefined
    /\ lastCall = [op |-> "new", id |-> ""]
    /\ ops = 0

ConfigStoreState == [store |-> configStore, destroyCalls |-> destroyCalls]

\* this.store[id]
StoreGet(st, id) == IF id \in DOMAIN st THEN st[id] ELSE Undefined

\* deleteStore that does not call destroy
DeleteStoreWithoutDestroy(cs, id) ==
    IF Truthy(StoreGet(cs.store, id))
    THEN [cs EXCEPT !.store = [i \in DOMAIN cs.store \ {id} |-> cs.store[i]]]
    ELSE cs

\* deleteStore(id), lines 31-41
DeleteStore(cs, id) ==
    LET obj == StoreGet(cs.store, id)
    IN IF Truthy(obj)
       THEN [store |-> [i \in DOMAIN cs.store \ {id} |-> cs.store[i]],
             destroyCalls |-> IF HasDestroy(obj)
                              THEN [cs.destroyCalls EXCEPT ![obj] = @ + 1]
                              ELSE cs.destroyCalls]
       ELSE cs

\* line 44: deleteStore for each of the keys the store had when deleteAll was
\* called; the order of the keys does not change the outcome
RECURSIVE DeleteEach(_, _)
DeleteEach(cs, ids) ==
    IF ids = {} THEN cs
    ELSE LET id == CHOOSE i \in ids : TRUE
         IN DeleteEach(DeleteStore(cs, id), ids \ {id})

\* deleteAll(), lines 43-45
DeleteAll(cs) == DeleteEach(cs, DOMAIN cs.store)

\* add(id, config), lines 51-53
Add(st, id, config) == [i \in DOMAIN st \cup {id} |-> IF i = id THEN config ELSE st[i]]

SetConfigStore(cs) ==
    /\ configStore' = cs.store
    /\ destroyCalls' = cs.destroyCalls

Called(op, id) ==
    /\ ops < MaxOps
    /\ ops' = ops + 1
    /\ lastCall' = [op |-> op, id |-> id]

AddCall(id, config) ==
    /\ Called("add", id)
    /\ configStore' = Add(configStore, id, config)
    /\ added' = [added EXCEPT ![id] = config]
    /\ UNCHANGED <<destroyCalls, returned, providerVars, annotationVars>>

\* get(id), lines 58-60
GetCall(id) ==
    /\ Called("get", id)
    /\ returned' = StoreGet(configStore, id)
    /\ UNCHANGED <<configStore, destroyCalls, added, providerVars, annotationVars>>

DeleteStoreCall(id) ==
    /\ Called("deleteStore", id)
    /\ SetConfigStore(DeleteStore(ConfigStoreState, id))
    /\ added' = [added EXCEPT ![id] = Undefined]
    /\ UNCHANGED <<returned, providerVars, annotationVars>>

DeleteAllCall ==
    /\ Called("deleteAll", "")
    /\ SetConfigStore(DeleteAll(ConfigStoreState))
    /\ added' = [id \in ConfigIds |-> Undefined]
    /\ UNCHANGED <<returned, providerVars, annotationVars>>

(***************************************************************************)
(* Actions.                                                                *)
(***************************************************************************)
LoadedAnnotations == <<"n">>

Init ==
    /\ store = [k \in Keys |-> [name |-> InitialName(k),
                                 composition |-> InitialComposition(k)]]
    /\ indexedIds = {}
    /\ indexedCompositions = {}
    /\ bound = [k \in Keys |-> NoObject]
    /\ idsToIndex = <<>>
    /\ pendingIndex = {}
    /\ pendingRequests = 0
    /\ fetching = EmptyBag
    /\ failedFetches = EmptyBag
    /\ loading = EmptyBag
    /\ resuming = 0
    /\ timers = 0
    /\ cmFetching = EmptyBag
    /\ localIndexedDomainObjects = <<>>
    /\ localIndexedAnnotationsByDomainObject = [k \in Keys |-> <<>>]
    /\ localIndexedAnnotationsByTag = [t \in Tags |-> <<>>]
    /\ mutations = 0
    /\ started = FALSE
    /\ queryCount = 0
    /\ pendingQueries = {}
    /\ hydrating = {}
    /\ delivered = <<>>
    /\ destroyed = FALSE
    /\ registered = EmptyBag
    /\ released = EmptyBag
    /\ calls = <<>>
    /\ saved = <<>>
    /\ emitted = <<>>
    /\ ConfigStoreConstructed

\* startIndexing (lines 456-468) with indexAnnotations (lines 470-484)
StartIndexing ==
    /\ ~started
    /\ started' = TRUE
    /\ SetSched(ScheduleAll(SchedState, indexedIds, <<ROOT>> \o LoadedAnnotations))
    /\ UNCHANGED <<configVars, annotationVars, store, observerVars, failedFetches, loading, resuming, timers, cmFetching,
                   indexVars, mutations, queryVars>>

\* a call of scheduleForIndexing(identifier) (lines 600-612)
Schedule(k) ==
    /\ SetSched(ScheduleForIndexing(SchedState, indexedIds, k))
    /\ UNCHANGED <<configVars, annotationVars, store, observerVars, failedFetches, loading, resuming, timers, cmFetching,
                   indexVars, mutations, started, queryVars>>

\* beginIndexRequest resumes: objects.get resolved with the object, and index
\* is called and awaited (lines 706-711)
GetResolves(k) ==
    /\ BagCount(fetching, k) > 0
    /\ fetching' = BagRemove(fetching, k)
    /\ pendingIndex' = pendingIndex \ {k}
    /\ Index(Observers, DomainObject(k), TRUE)
    /\ UNCHANGED <<configVars, annotationVars, store, idsToIndex, pendingRequests, failedFetches, timers,
                   cmFetching, mutations, started, queryVars>>

\* objects.get resolved with no object: index is skipped, the timer is set
GetResolvesUndefined(k) ==
    /\ BagCount(fetching, k) > 0
    /\ fetching' = BagRemove(fetching, k)
    /\ pendingIndex' = pendingIndex \ {k}
    /\ timers' = timers + 1
    /\ UNCHANGED <<configVars, annotationVars, store, observerVars, idsToIndex, pendingRequests, failedFetches,
                   loading, resuming, cmFetching, indexVars, mutations, started, queryVars>>

\* objects.get rejected: the await at line 706 is outside the try block, so
\* beginIndexRequest ends there; lines 707-720 never run for this request
GetRejects(k) ==
    /\ BagCount(fetching, k) > 0
    /\ fetching' = BagRemove(fetching, k)
    /\ failedFetches' = BagAdd(failedFetches, k)
    /\ UNCHANGED <<configVars, annotationVars, store, observerVars, idsToIndex, pendingIndex, pendingRequests,
                   loading, resuming, timers, cmFetching, indexVars, mutations, started, queryVars>>

\* index resumes: composition.load() resolved, the children are scheduled and
\* index ends (lines 688-691); a beginIndexRequest that awaits it resumes a
\* turn of the microtask queue later
LoadResolves(t) ==
    /\ BagCount(loading, t) > 0
    /\ loading' = BagRemove(loading, t)
    /\ SetSched(ScheduleAll(SchedState, indexedIds, t.children))
    /\ resuming' = IF t.request THEN resuming + 1 ELSE resuming
    /\ UNCHANGED <<configVars, annotationVars, store, observerVars, failedFetches, timers, cmFetching,
                   indexVars, mutations, started, queryVars>>

\* composition.load() rejected: index throws at line 688 and its promise is
\* rejected; a beginIndexRequest that awaits it resumes in its catch block
\* (lines 713-715) a turn of the microtask queue later
LoadRejects(t) ==
    /\ BagCount(loading, t) > 0
    /\ loading' = BagRemove(loading, t)
    /\ resuming' = IF t.request THEN resuming + 1 ELSE resuming
    /\ UNCHANGED <<configVars, annotationVars, store, observerVars, schedVars, failedFetches, timers,
                   cmFetching, indexVars, mutations, started, queryVars>>

\* beginIndexRequest resumes from its await of index (line 711), fulfilled or
\* rejected, and sets its timer (line 717)
RequestResumes ==
    /\ resuming > 0
    /\ resuming' = resuming - 1
    /\ timers' = timers + 1
    /\ UNCHANGED <<configVars, annotationVars, store, observerVars, schedVars, failedFetches, loading,
                   cmFetching, indexVars, mutations, started, queryVars>>

\* the setTimeout callback (lines 717-720): a task of the event loop, which
\* runs once the microtask queue is empty, so after every beginIndexRequest
\* that is due to resume has set its timer
TimerFires ==
    /\ timers > 0
    /\ resuming = 0
    /\ timers' = timers - 1
    /\ SetSched(KeepIndexing([SchedState EXCEPT !.pendingRequests = pendingRequests - 1]))
    /\ UNCHANGED <<configVars, annotationVars, store, observerVars, failedFetches, loading, resuming,
                   cmFetching, indexVars, mutations, started, queryVars>>

(***************************************************************************)
(* Teardown (the 'destroy' handler, lines 443-453).                        *)
(***************************************************************************)
\* destroyObservers (lines 909-917): every handle of the map is called once
Unobserved(keys, property) == SetToBag({<<k, property>> : k \in keys})

\* the 'destroy' event: the worker is absent, the two maps are emptied
Destroy ==
    /\ ~destroyed
    /\ destroyed' = TRUE
    /\ released' = released (+) Unobserved(indexedIds, "name")
                             (+) Unobserved(indexedCompositions, "composition")
    /\ indexedIds' = {}
    /\ indexedCompositions' = {}
    /\ UNCHANGED <<configVars, annotationVars, store, bound, registered, schedVars, failedFetches, loading, resuming, timers,
                   cmFetching, indexVars, mutations, started, queryVars>>

(***************************************************************************)
(* The change observers.                                                   *)
(***************************************************************************)
\* openmct.objects.areIdsEqual(a, b): equality of two identifiers by value
AreIdsEqual(a, b) == a = b

\* the predicate reads the fields of both its arguments: a call that does not
\* give the second one throws a TypeError
AreIdsEqualThrows(a, b) == b = Undefined

\* lines 637-645.  Line 641 hands the predicate one argument, the array
\* [identifier, indexedIdentifier], and no second one, so the first call of
\* the predicate throws out of the filter and the forEach of line 643 never
\* runs; the predicate is not called when one of the two lists is empty, and
\* then every identifier of the new list passes the filter
IdentifiersToIndex(indexedComposition, composition) ==
    IF \E i \in 1..Len(composition) : \E j \in 1..Len(indexedComposition) :
           AreIdsEqualThrows(<<composition[i], indexedComposition[j]>>, Undefined)
    THEN <<>>
    ELSE composition

RECURSIVE BagAddAll(_, _)
BagAddAll(b, ks) == IF ks = <<>> THEN b ELSE BagAddAll(BagAdd(b, Head(ks)), Tail(ks))

\* the child lists a mutation may deliver: one child added, or the last removed
AddableChildren == {"b", "c"}

NewCompositions(k, old) ==
    {Append(old, x) : x \in (AddableChildren \ {k}) \ SeqToSet(old)}
        \cup (IF old = <<>> THEN {} ELSE {SubSeq(old, 1, Len(old) - 1)})

\* the child lists of a sequence of notifications: those above, and one of the
\* children of the first list, removed by an earlier notification, added back
NotifiedCompositions(k, old) ==
    NewCompositions(k, old)
        \cup {Append(old, x) : x \in SeqToSet(InitialComposition(k)) \ SeqToSet(old)}

\* a 'name' mutation of k is notified: onNameMutation (lines 628-633)
NameMutation(k, name, limit) ==
    /\ k \in indexedIds
    /\ mutations < limit
    /\ mutations' = mutations + 1
    /\ name # store[k].name
    /\ store' = [store EXCEPT ![k].name = name]
    /\ LET domainObject == [bound[k] EXCEPT !.name = name]
       IN Index([Observers EXCEPT !.bound[k] = domainObject], domainObject, FALSE)
    /\ UNCHANGED <<configVars, annotationVars, schedVars, failedFetches, timers, cmFetching, started, queryVars>>

\* onCompositionMutation dropping from the index the children that have left
\* the composition
CompositionMutationPruning(k, composition, limit) ==
    /\ k \in indexedCompositions
    /\ bound[k].hasComposition
    /\ mutations < limit
    /\ mutations' = mutations + 1
    /\ store' = [store EXCEPT ![k].composition = composition]
    /\ cmFetching' = BagAddAll(cmFetching,
                                IdentifiersToIndex(bound[k].composition, composition))
    /\ LET removed == SeqToSet(bound[k].composition) \ SeqToSet(composition)
       IN /\ indexedIds' = indexedIds \ removed
          /\ localIndexedDomainObjects' =
                SelectSeq(localIndexedDomainObjects, LAMBDA e : e.keyString \notin removed)
    /\ UNCHANGED <<configVars, annotationVars, indexedCompositions, bound, destroyed, registered, released,
                   schedVars, failedFetches, loading, resuming, timers,
                   localIndexedAnnotationsByDomainObject, localIndexedAnnotationsByTag,
                   started, queryVars>>

\* a 'composition' mutation of k is notified: onCompositionMutation (lines 635-646)
CompositionMutation(k, composition, limit) ==
    /\ k \in indexedCompositions
    /\ bound[k].hasComposition
    /\ mutations < limit
    /\ mutations' = mutations + 1
    /\ store' = [store EXCEPT ![k].composition = composition]
    /\ cmFetching' = BagAddAll(cmFetching,
                                IdentifiersToIndex(bound[k].composition, composition))
    /\ UNCHANGED <<configVars, annotationVars, observerVars, schedVars, failedFetches, loading, resuming, timers, indexVars,
                   started, queryVars>>

\* line 644: objects.get(identifier) resolved with the object, which is indexed
CmGetResolves(k) ==
    /\ BagCount(cmFetching, k) > 0
    /\ cmFetching' = BagRemove(cmFetching, k)
    /\ Index(Observers, DomainObject(k), FALSE)
    /\ UNCHANGED <<configVars, annotationVars, store, schedVars, failedFetches, timers, mutations, started,
                   queryVars>>

\* line 644: objects.get(identifier) rejected, or resolved with no object (index
\* then throws at line 658): nothing is indexed and nothing handles the rejection
CmGetFails(k) ==
    /\ BagCount(cmFetching, k) > 0
    /\ cmFetching' = BagRemove(cmFetching, k)
    /\ UNCHANGED <<configVars, annotationVars, store, observerVars, schedVars, failedFetches, loading, resuming, timers,
                   indexVars, mutations, started, queryVars>>

(***************************************************************************)
(* Searches.                                                               *)
(***************************************************************************)
\* search(input, queryType, localQueryFallBack, maxResults), lines 499-515, with
\* the worker absent (line 463): the fallback runs synchronously and hands its
\* message to onWorkerMessage, which runs up to its await (lines 545-555)
Search(queryType, input, maxResults, limit) ==
    /\ queryCount < limit
    /\ LET queryId == queryCount + 1
           r == LocalQueryFallBack(IndexState, queryType, queryId, input,
                                   EffectiveMaxResults(maxResults))
       IN /\ queryCount' = queryId
          /\ pendingQueries' = pendingQueries \cup {queryId}
          /\ delivered' = Append(delivered, <<>>)
          /\ hydrating' = IF r.threw THEN hydrating ELSE hydrating \cup {r.message}
    /\ UNCHANGED <<configVars, annotationVars, store, observerVars, schedVars, failedFetches, loading, resuming, timers,
                   cmFetching, indexVars, mutations, started>>

\* onWorkerMessage resumes: every objects.get of the hits resolved (lines 557-558)
HydrationResolves(message) ==
    /\ message \in hydrating
    /\ \A i \in 1..Len(message.results) : ~IsUndefinedHit(message.results[i])
    /\ hydrating' = hydrating \ {message}
    /\ LET q == PendingQueryOf(pendingQueries, message)
       IN delivered' = [delivered EXCEPT ![q] =
                           Append(@, ModelResults(message, hydrating \ {message}))]
    /\ pendingQueries' = DeleteQuery(pendingQueries, message)
    /\ UNCHANGED <<configVars, annotationVars, store, observerVars, schedVars, failedFetches, loading, resuming, timers,
                   cmFetching, indexVars, mutations, started, queryCount>>

\* an objects.get of a hit rejected, or a hit is undefined and reading its
\* keyString throws (line 551): Promise.all rejects and lines 557-558 never run
HydrationFails(message) ==
    /\ message \in hydrating
    /\ message.results # <<>>
    /\ hydrating' = hydrating \ {message}
    /\ UNCHANGED <<configVars, annotationVars, store, observerVars, schedVars, failedFetches, loading, resuming, timers,
                   cmFetching, indexVars, mutations, started, queryCount,
                   pendingQueries, delivered>>

Next ==
    \/ StartIndexing
    \/ \E k \in Keys : Schedule(k)
    \/ \E k \in Keys : GetResolves(k)
    \/ \E k \in Keys : GetResolvesUndefined(k)
    \/ \E k \in Keys : GetRejects(k)
    \/ \E t \in DOMAIN loading : LoadResolves(t)
    \/ \E t \in DOMAIN loading : LoadRejects(t)
    \/ RequestResumes
    \/ TimerFires
    \/ \E k \in RenamedKeys, name \in NewNames : NameMutation(k, name, MaxMutations)
    \/ \E k \in MutatedParents : \E c \in NewCompositions(k, store[k].composition) :
            CompositionMutation(k, c, MaxMutations)
    \/ \E k \in Keys : CmGetResolves(k)
    \/ \E k \in Keys : CmGetFails(k)

Spec == Init /\ [][Next]_vars

(***************************************************************************)
(* The index is built without failures and searched: two callers at most,  *)
(* a few calls.                                                            *)
(***************************************************************************)
NarrowCalls ==
    <<[queryType |-> "searchForObjects", input |-> <<>>, maxResults |-> <<1>>],
      [queryType |-> "searchForObjects", input |-> <<"a", "B">>, maxResults |-> <<>>],
      [queryType |-> "searchForAnnotations", input |-> "a", maxResults |-> <<>>],
      [queryType |-> "searchForTags", input |-> <<"t3">>, maxResults |-> <<>>]>>

Building ==
    \/ StartIndexing
    \/ \E k \in Keys : GetResolves(k)
    \/ \E t \in DOMAIN loading : LoadResolves(t)
    \/ RequestResumes
    \/ TimerFires

NextSearch ==
    \/ Building
    \/ \E i \in 1..Len(NarrowCalls) :
            Search(NarrowCalls[i].queryType, NarrowCalls[i].input,
                   NarrowCalls[i].maxResults, MaxQueries)
    \/ \E m \in hydrating : HydrationResolves(m)
    \/ \E m \in hydrating : HydrationFails(m)

SpecSearch == Init /\ [][NextSearch]_vars

(***************************************************************************)
(* The index is built and renamed, and searched with every input whenever  *)
(* the scheduler is idle: before indexing starts and once the backlog is   *)
(* drained.                                                                *)
(***************************************************************************)
SchedulerIdle == pendingRequests = 0 /\ idsToIndex = <<>>

NextQuery ==
    \/ Building
    \/ \E k \in RenamedKeys, name \in NewNames : NameMutation(k, name, MaxMutations)
    \/ \E qt \in QueryTypes : \E input \in InputsOf(qt) : \E mr \in MaxResultsArgs :
            SchedulerIdle /\ Search(qt, input, mr, MaxWideQueries)
    \/ \E m \in hydrating : HydrationResolves(m)
    \/ \E m \in hydrating : HydrationFails(m)

SpecQuery == Init /\ [][NextQuery]_vars

(***************************************************************************)
(* The index is built and searched while the scheduler is idle, and every  *)
(* fetch, every composition load and every timer callback completes: the   *)
(* store answers and the event loop runs.                                  *)
(***************************************************************************)
Completion ==
    /\ WF_vars(\E k \in Keys : GetResolves(k))
    /\ WF_vars(\E t \in DOMAIN loading : LoadResolves(t))
    /\ WF_vars(RequestResumes)
    /\ WF_vars(TimerFires)

NextIndexing ==
    \/ Building
    \/ \E i \in 1..Len(NarrowCalls) :
            SchedulerIdle /\ Search(NarrowCalls[i].queryType, NarrowCalls[i].input,
                                    NarrowCalls[i].maxResults, MaxQueries)
    \/ \E m \in hydrating : HydrationResolves(m)
    \/ \E m \in hydrating : HydrationFails(m)

SpecIndexing == Init /\ [][NextIndexing]_vars /\ Completion

(***************************************************************************)
(* The index is built without failures of the scheduler's fetches while    *)
(* names and compositions are mutated several times.                       *)
(***************************************************************************)
NextMutation ==
    \/ Building
    \/ \E k \in RenamedKeys, name \in NewNames : NameMutation(k, name, MaxNotifications)
    \/ \E k \in MutatedParents : \E c \in NotifiedCompositions(k, store[k].composition) :
            CompositionMutation(k, c, MaxNotifications)
    \/ \E k \in Keys : CmGetResolves(k)
    \/ \E k \in Keys : CmGetFails(k)

SpecMutation == Init /\ [][NextMutation]_vars

(***************************************************************************)
(* The index is built and the system is torn down at any moment.           *)
(***************************************************************************)
NextTeardown ==
    \/ Building
    \/ \E k \in RenamedKeys, name \in NewNames : NameMutation(k, name, MaxMutations)
    \/ Destroy

SpecTeardown == Init /\ [][NextTeardown]_vars

(***************************************************************************)
(* The backend after construction: index() is called with annotations, in  *)
(* any order and possibly more than once with the same one, and the        *)
(* backend is searched with every input.                                   *)
(***************************************************************************)
Annotation(k, target, entryId, tags) ==
    [identifier |-> k, type |-> "annotation", name |-> <<"a">>, hasComposition |-> FALSE,
     composition |-> <<>>, targets |-> [t \in {target} |-> [entryId |-> entryId]],
     tags |-> tags]

AnnotationModels ==
    {Annotation("n", "a", "e1", <<"t1", "t2">>),
     Annotation("m", "a", "e2", <<"t2">>),
     Annotation("p", "b", "e1", <<"t2", "t1">>),
     \* an annotation of a plot: its target record has no entryId
     [Annotation("q", "a", "e1", <<"t1">>) EXCEPT !.targets = [t \in {"a"} |-> [plot |-> "p1"]]]}

\* the number of annotations the backend has been handed: each of the
\* annotations above has one target, so one entry of a target-centric list
Forwarded ==
    Cardinality(UNION {{<<k, i>> : i \in 1..Len(localIndexedAnnotationsByDomainObject[k])} :
                          k \in DOMAIN localIndexedAnnotationsByDomainObject})

\* index(domainObject) (lines 656-692) called with an annotation, which has no
\* composition: its observers are registered at the first call, the backend
\* is handed the annotation at every call, and index ends
IndexAnnotation(domainObject, limit) ==
    /\ Forwarded < limit
    /\ Index(Observers, domainObject, FALSE)
    /\ UNCHANGED <<configVars, annotationVars, store, schedVars, failedFetches, timers, cmFetching,
                   mutations, started, queryVars>>

NextBackend ==
    \/ \E domainObject \in AnnotationModels : IndexAnnotation(domainObject, MaxAnnotations)
    \/ \E qt \in QueryTypes : \E input \in InputsOf(qt) : \E mr \in MaxResultsArgs :
            Search(qt, input, mr, MaxWideQueries)
    \/ \E m \in hydrating : HydrationResolves(m)
    \/ \E m \in hydrating : HydrationFails(m)

SpecBackend == Init /\ [][NextBackend]_vars

(***************************************************************************)
(* AnnotationAPI (lines 95-372).  A call is a record with its arguments,   *)
(* its stage (the await it is suspended at, or "resolved" / "rejected"),   *)
(* the error it was rejected with and the object it works on.  An async    *)
(* method that throws rejects the promise it returned.                     *)
(***************************************************************************)
\* lines 99-105
ANNOTATION_TYPES ==
    ("NOTEBOOK" :> "notebook") @@ ("GEOSPATIAL" :> "geospatial")
        @@ ("PIXEL_SPATIAL" :> "pixelspatial") @@ ("TEMPORAL" :> "temporal")
        @@ ("PLOT_SPATIAL" :> "plotspatial")

ObjectKeys(object) == DOMAIN object

NoError == ""
UnknownTypeError == "Unknown annotation type"
TargetRequiredError == "At least one target is required to create an annotation"
CreateError == "Failed to create object"
RemoveTagError == "Asked to remove notebook tag that doesn't exist"
NoAnnotationError == "No existing annotation"
CollaboratorError == "rejected by the object store"

\* create that does not look at its targets
CreateValidationWithoutTargets(annotationType, targets) ==
    IF annotationType \in ObjectKeys(ANNOTATION_TYPES) THEN UnknownTypeError ELSE NoError

\* lines 133-139: the error create throws before its first await
CreateValidation(annotationType, targets) ==
    IF annotationType \in ObjectKeys(ANNOTATION_TYPES) THEN UnknownTypeError
    ELSE IF Cardinality(ObjectKeys(targets)) = 0 THEN TargetRequiredError
    ELSE NoError

NoAnnotation == [key |-> 0, annotationType |-> "", tags |-> <<>>, targets |-> <<>>]

\* the type definition's initialize (lines 112-118)
Initialize(object) ==
    [object EXCEPT !.annotationType = IF @ = "" THEN "plotspatial" ELSE @]

\* lines 151-170: the object create builds; its key is a fresh uuid
CreatedObject(key, call) ==
    [Initialize([key |-> key, annotationType |-> call.annotationType,
                 tags |-> call.tags, targets |-> <<>>])
        EXCEPT !.targets = call.targets]

Call(op) ==
    [op |-> op, annotationType |-> "", tags |-> <<>>, targets |-> <<>>, entryId |-> "",
     target |-> "", tag |-> "", tagToAdd |-> "", stage |-> "", error |-> NoError,
     object |-> NoAnnotation]

Rejected(call, error) == [call EXCEPT !.stage = "rejected", !.error = error]
Resolved(call, object) == [call EXCEPT !.stage = "resolved", !.object = object]

\* the arguments of the calls
AnnotationTypeArgs == {"notebook", "NOTEBOOK", "bogus"}
TargetsArgs == {<<>>, [t \in {"a"} |-> [entryId |-> "e1"]]}
EntryIds == {"e1", "e2"}

\* the methods that run create: create itself, and addNotebookAnnotationTag
\* for an entry without an annotation (line 276)
CreateCallers == {"create", "addNotebookAnnotationTag"}

\* line 176: create returns the object, to its caller or to line 276
CreateReturns(call) ==
    IF call.op = "create" THEN Resolved(call, call.object)
    ELSE [call EXCEPT !.stage = "created"]

\* create up to its first await (lines 131-142)
Create(annotationType, tags, targets) ==
    /\ Len(calls) < MaxCalls
    /\ LET call == [Call("create") EXCEPT !.annotationType = annotationType,
                                          !.tags = tags, !.targets = targets]
           error == CreateValidation(annotationType, targets)
       IN calls' = Append(calls, IF error # NoError THEN Rejected(call, error)
                                 ELSE [call EXCEPT !.stage = "path"])
    /\ UNCHANGED <<saved, emitted, providerVars, configVars>>

\* getOriginalPath resolved: the object is built and handed to save (lines 142-172)
PathResolves(i) ==
    /\ calls[i].op \in CreateCallers /\ calls[i].stage = "path"
    /\ calls' = [calls EXCEPT ![i] = [@ EXCEPT !.stage = "save",
                                               !.object = CreatedObject(i, calls[i])]]
    /\ UNCHANGED <<saved, emitted, providerVars, configVars>>

\* getOriginalPath rejected: create rejects with that error
PathRejects(i) ==
    /\ calls[i].op \in CreateCallers /\ calls[i].stage = "path"
    /\ calls' = [calls EXCEPT ![i] = Rejected(@, CollaboratorError)]
    /\ UNCHANGED <<saved, emitted, providerVars, configVars>>

\* create with the event emitted whatever save reports
AfterSaveAlwaysEmitting(call, success) ==
    [call |-> IF success THEN CreateReturns(call) ELSE Rejected(call, CreateError),
     emits |-> <<call.object>>]

\* lines 173-179: create after save has resolved with success
AfterSave(call, success) ==
    IF success
    THEN [call |-> CreateReturns(call), emits |-> <<call.object>>]
    ELSE [call |-> Rejected(call, CreateError), emits |-> <<>>]

\* objects.save resolved with true: the store holds the object
SaveSucceeds(i) ==
    /\ calls[i].op \in CreateCallers /\ calls[i].stage = "save"
    /\ saved' = Append(saved, calls[i].object)
    /\ calls' = [calls EXCEPT ![i] = AfterSave(@, TRUE).call]
    /\ emitted' = emitted \o AfterSave(calls[i], TRUE).emits
    /\ UNCHANGED <<providerVars, configVars>>

\* objects.save resolved with false: the store does not hold the object
SaveFails(i) ==
    /\ calls[i].op \in CreateCallers /\ calls[i].stage = "save"
    /\ saved' = saved
    /\ calls' = [calls EXCEPT ![i] = AfterSave(@, FALSE).call]
    /\ emitted' = emitted \o AfterSave(calls[i], FALSE).emits
    /\ UNCHANGED <<providerVars, configVars>>

\* objects.save rejected: create rejects with that error at line 172
SaveRejects(i) ==
    /\ calls[i].op \in CreateCallers /\ calls[i].stage = "save"
    /\ calls' = [calls EXCEPT ![i] = Rejected(@, CollaboratorError)]
    /\ UNCHANGED <<saved, emitted, providerVars, configVars>>

\* the search provider's searchForAnnotationsByTargetByIDAndNotebookEntry:
\* the saved annotations that have the target with that entry id, in order
SearchForAnnotationsByTargetByIDAndNotebookEntry(targetKeyString, entryId) ==
    SelectSeq([j \in 1..Len(saved) |-> j],
              LAMBDA j : /\ targetKeyString \in DOMAIN saved[j].targets
                         /\ saved[j].targets[targetKeyString].entryId = entryId)

\* getNotebookAnnotation (lines 250-263): the first result, or nothing when
\* there is no result or no search provider; 0 stands for nothing
GetNotebookAnnotation(entryId, targetKeyString) ==
    LET searchResults ==
            SearchForAnnotationsByTargetByIDAndNotebookEntry(targetKeyString, entryId)
    IN {0} \cup (IF searchResults = <<>> THEN {} ELSE {searchResults[1]})

Found(j) == IF j = 0 THEN NoAnnotation ELSE saved[j]

\* objects.mutate(existingAnnotation, 'tags', tags)
Mutate(j, tags) == [saved EXCEPT ![j].tags = tags]

\* addNotebookAnnotationTag up to its await (lines 265-267)
AddNotebookAnnotationTag(entryId, target, tag) ==
    /\ Len(calls) < MaxCalls
    /\ calls' = Append(calls, [Call("addNotebookAnnotationTag") EXCEPT
                                  !.entryId = entryId, !.target = target,
                                  !.tag = tag, !.stage = "search"])
    /\ UNCHANGED <<saved, emitted, providerVars, configVars>>

\* addNotebookAnnotationTag resumes with the annotation found (lines 269-282):
\* the tag is put in front of its tags; without an annotation it runs create
\* for a notebook annotation of the entry, without tags, up to its first await
AddTagResumes(i, j) ==
    /\ calls[i].op = "addNotebookAnnotationTag" /\ calls[i].stage = "search"
    /\ j \in GetNotebookAnnotation(calls[i].entryId, calls[i].target)
    /\ IF j # 0
       THEN /\ saved' = Mutate(j, <<calls[i].tag>> \o saved[j].tags)
            /\ calls' = [calls EXCEPT ![i] =
                            Resolved(@, Mutate(j, <<calls[i].tag>> \o saved[j].tags)[j])]
       ELSE /\ saved' = saved
            /\ LET targets == [t \in {calls[i].target} |-> [entryId |-> calls[i].entryId]]
                   call == [calls[i] EXCEPT !.annotationType = ANNOTATION_TYPES["NOTEBOOK"],
                                            !.tags = <<>>, !.targets = targets]
                   error == CreateValidation(call.annotationType, targets)
               IN calls' = [calls EXCEPT ![i] = IF error # NoError THEN Rejected(call, error)
                                                ELSE [call EXCEPT !.stage = "path"]]
    /\ UNCHANGED <<emitted, providerVars, configVars>>

\* addNotebookAnnotationTag resumes with the object create returned (lines
\* 279-282): the tag is put in front of the tags of the saved object
AddTagAfterCreate(i, j) ==
    /\ calls[i].op = "addNotebookAnnotationTag" /\ calls[i].stage = "created"
    /\ j \in 1..Len(saved) /\ saved[j].key = calls[i].object.key
    /\ saved' = Mutate(j, <<calls[i].tag>> \o saved[j].tags)
    /\ calls' = [calls EXCEPT ![i] =
                    Resolved(@, Mutate(j, <<calls[i].tag>> \o saved[j].tags)[j])]
    /\ UNCHANGED <<emitted, providerVars, configVars>>

\* removeNotebookAnnotationTag up to its await (lines 285-287)
RemoveNotebookAnnotationTag(entryId, target, tagToRemove) ==
    /\ Len(calls) < MaxCalls
    /\ calls' = Append(calls, [Call("removeNotebookAnnotationTag") EXCEPT
                                  !.entryId = entryId, !.target = target,
                                  !.tag = tagToRemove, !.stage = "search"])
    /\ UNCHANGED <<saved, emitted, providerVars, configVars>>

\* removeNotebookAnnotationTag resumes with the annotation found (lines 289-294)
RemoveTagResumes(i, j) ==
    /\ calls[i].op = "removeNotebookAnnotationTag" /\ calls[i].stage = "search"
    /\ j \in GetNotebookAnnotation(calls[i].entryId, calls[i].target)
    /\ IF j # 0 /\ calls[i].tag \in SeqToSet(saved[j].tags)
       THEN /\ saved' = Mutate(j, SelectSeq(saved[j].tags,
                                            LAMBDA extantTag : extantTag # calls[i].tag))
            /\ calls' = [calls EXCEPT ![i] = Resolved(@, Found(j))]
       ELSE /\ saved' = saved
            /\ calls' = [calls EXCEPT ![i] = Rejected([@ EXCEPT !.object = Found(j)],
                                                      RemoveTagError)]
    /\ UNCHANGED <<emitted, providerVars, configVars>>

\* changeNotebookAnnotationTag up to its await (lines 303-305)
ChangeNotebookAnnotationTag(entryId, target, tagToRemove, tagToAdd) ==
    /\ Len(calls) < MaxCalls
    /\ calls' = Append(calls, [Call("changeNotebookAnnotationTag") EXCEPT
                                  !.entryId = entryId, !.target = target,
                                  !.tag = tagToRemove, !.tagToAdd = tagToAdd,
                                  !.stage = "search"])
    /\ UNCHANGED <<saved, emitted, providerVars, configVars>>

\* changeNotebookAnnotationTag resumes with the annotation found (lines 306-313)
ChangeTagResumes(i, j) ==
    /\ calls[i].op = "changeNotebookAnnotationTag" /\ calls[i].stage = "search"
    /\ j \in GetNotebookAnnotation(calls[i].entryId, calls[i].target)
    /\ IF j = 0
       THEN /\ saved' = saved
            /\ calls' = [calls EXCEPT ![i] = Rejected(@, NoAnnotationError)]
       ELSE /\ saved' = Mutate(j, Append(SelectSeq(saved[j].tags,
                                LAMBDA extantTag : /\ extantTag # calls[i].tag
                                                   /\ extantTag # calls[i].tagToAdd),
                                calls[i].tagToAdd))
            /\ calls' = [calls EXCEPT ![i] = Resolved(@, Found(j))]
    /\ UNCHANGED <<emitted, providerVars, configVars>>

CallIds == DOMAIN calls

NextAnnotation ==
    \/ \E annotationType \in AnnotationTypeArgs, targets \in TargetsArgs :
            Create(annotationType, <<"t1">>, targets)
    \/ \E i \in CallIds : PathResolves(i)
    \/ \E i \in CallIds : PathRejects(i)
    \/ \E i \in CallIds : SaveSucceeds(i)
    \/ \E i \in CallIds : SaveFails(i)
    \/ \E i \in CallIds : SaveRejects(i)
    \/ \E entryId \in EntryIds, tag \in {"t1", "t2"} :
            AddNotebookAnnotationTag(entryId, "a", tag)
    \/ \E i \in CallIds : \E j \in 0..Len(saved) : AddTagResumes(i, j)
    \/ \E i \in CallIds : \E j \in 1..Len(saved) : AddTagAfterCreate(i, j)
    \/ \E entryId \in EntryIds, tag \in {"t1", "t2"} :
            RemoveNotebookAnnotationTag(entryId, "a", tag)
    \/ \E i \in CallIds : \E j \in 0..Len(saved) : RemoveTagResumes(i, j)
    \/ \E entryId \in EntryIds : ChangeNotebookAnnotationTag(entryId, "a", "t1", "t2")
    \/ \E i \in CallIds : \E j \in 0..Len(saved) : ChangeTagResumes(i, j)

SpecAnnotation == Init /\ [][NextAnnotation]_vars

(***************************************************************************)
(* The callers of the ConfigStore.                                         *)
(***************************************************************************)
NextConfig ==
    \/ \E id \in ConfigIds, config \in Configs : AddCall(id, config)
    \/ \E id \in ConfigIds : GetCall(id)
    \/ \E id \in ConfigIds : DeleteStoreCall(id)
    \/ DeleteAllCall

SpecConfig == Init /\ [][NextConfig]_vars

(***************************************************************************)
(* Properties of the scheduler.                                            *)
(***************************************************************************)
RequestLoads == [t \in {x \in DOMAIN loading : x.request} |-> loading[t]]

\* the index operations begun by beginIndexRequest whose timer callback has not run
InFlight ==
    BagSize(fetching) + BagSize(failedFetches) + BagSize(RequestLoads) + resuming + timers

\* C1: the operations in flight are counted by pendingRequests and never
\* exceed MAX_CONCURRENT_REQUESTS, whatever the backlog.
C1_CeilingRespected ==
    /\ pendingRequests = InFlight
    /\ InFlight <= MAX_CONCURRENT_REQUESTS

\* a backlog longer than the ceiling waits while the ceiling is reached
C1_BacklogExceedsCeiling ==
    /\ Len(idsToIndex) > MAX_CONCURRENT_REQUESTS
    /\ pendingRequests = MAX_CONCURRENT_REQUESTS

Occurrences(seq, k) == Cardinality({i \in 1..Len(seq) : seq[i] = k})

RequestLoadsOf(k) == [t \in {x \in DOMAIN loading : x.request /\ x.key = k} |-> loading[t]]

\* the fetch+index cycles of k that have not completed: k queued, k being
\* fetched, k being indexed on behalf of its request
OpenCycles(k) ==
    Occurrences(idsToIndex, k) + BagCount(fetching, k) + BagSize(RequestLoadsOf(k))

\* C2: while a fetch+index cycle of an identifier is open (queued, being
\* fetched or being indexed), scheduling it again changes nothing, and there
\* is never more than one open cycle, hence one fetch, of an identifier.
C2_DuplicateScheduleIsNoOp ==
    \A k \in Keys :
        /\ OpenCycles(k) <= 1
        /\ OpenCycles(k) = 1 =>
              ScheduleForIndexing(SchedState, indexedIds, k) = SchedState

\* an identifier is being fetched, another waits in the queue, and a further
\* scheduleForIndexing of either leaves the scheduler as it is
C2_ScheduledWhileFetchingAndQueued ==
    \E k, q \in Keys :
        /\ BagCount(fetching, k) = 1 /\ k \in pendingIndex
        /\ Occurrences(idsToIndex, q) = 1
        /\ ScheduleForIndexing(SchedState, indexedIds, k) = SchedState
        /\ ScheduleForIndexing(SchedState, indexedIds, q) = SchedState

FetchFailsInStep(k) == BagCount(failedFetches', k) > BagCount(failedFetches, k)

\* C3: when the fetch of an admitted identifier fails, the identifier leaves
\* the pending set and the request goes on to its deferred completion, so
\* that the scheduler continues.
C3_FetchFailureHandled ==
    [][\A k \in Keys :
          FetchFailsInStep(k) => (k \notin pendingIndex' /\ timers' = timers + 1)]_vars

Quiescent ==
    /\ idsToIndex = <<>>
    /\ fetching = EmptyBag
    /\ RequestLoads = EmptyBag
    /\ resuming = 0
    /\ timers = 0

\* C4: every admitted operation, failed or not, decrements the active count
\* once: when the queue is empty and no operation is running or awaiting its
\* deferred step, the active count is 0.
C4_ActiveCountReturnsToZero == Quiescent => pendingRequests = 0

(***************************************************************************)
(* Properties of the query coordinator.                                    *)
(***************************************************************************)
QueryIds == 1..queryCount

\* C5: a promise returned by search is only ever resolved with the result
\* message that carries its own queryId.
C5_ResolvedWithOwnResult ==
    \A q \in QueryIds :
        \A i \in 1..Len(delivered[q]) : delivered[q][i].from = q

\* two searches were dispatched before either resolved, the later one
\* resolved first, and the two results differ
C5_TwoConcurrentSearchesResolved ==
    \E q1, q2 \in QueryIds :
        /\ q1 < q2
        /\ delivered[q1] # <<>> /\ delivered[q2] # <<>>
        /\ q1 \in delivered[q2][1].inFlight
        /\ delivered[q1][1].total # delivered[q2][1].total

\* C6 (as claimed): every query is settled exactly once and its record is
\* then removed; so when no result message is being handled, every query
\* created has been settled once and pendingQueries is empty.
C6_EveryQuerySettledOnce ==
    hydrating = {} =>
        \A q \in QueryIds : Len(delivered[q]) = 1 /\ q \notin pendingQueries

\* C6 (amended): a query is resolved at most once, and its record is in
\* pendingQueries exactly as long as it has not been resolved; reject is
\* never called, so a query whose search threw or whose hydration failed
\* stays unsettled in pendingQueries.
C6_ResolvedAtMostOnceThenDiscarded ==
    \A q \in QueryIds :
        /\ Len(delivered[q]) <= 1
        /\ Len(delivered[q]) = 1 <=> q \notin pendingQueries

\* one query has been resolved and discarded, another is left unsettled
C6_OneResolvedOneLeftPending ==
    /\ hydrating = {}
    /\ \E q1, q2 \in QueryIds :
          /\ Len(delivered[q1]) = 1 /\ q1 \notin pendingQueries
          /\ delivered[q2] = <<>> /\ q2 \in pendingQueries

(***************************************************************************)
(* Properties of the searches, for every input in every state of the index.*)
(***************************************************************************)
\* the matches of a search before truncation
Matches(queryType, input) ==
    CASE queryType = "searchForObjects" -> NameMatches(IndexState, input)
      [] queryType = "searchForAnnotations" -> IndexState.byTarget[input]
      [] queryType = "searchForTags" -> TagMatches(IndexState, input)
      [] queryType = "searchForNotebookAnnotations" -> NotebookMatches(IndexState, input)

\* what search does with the call, up to the hand-over to onWorkerMessage
Outcome(queryType, input, maxResults) ==
    LocalQueryFallBack(IndexState, queryType, 0, input, EffectiveMaxResults(maxResults))

\* when the call produces a result (the search does not throw and every hit
\* can be hydrated), the result is within the cap and counts every match
WithinCap(queryType, input, maxResults) ==
    LET r == Outcome(queryType, input, maxResults)
        cap == IF maxResults = <<>> THEN DEFAULT_MAX_RESULTS ELSE maxResults[1]
    IN (/\ ~r.threw
        /\ \A i \in 1..Len(r.message.results) : ~IsUndefinedHit(r.message.results[i]))
        => LET result == ModelResults(r.message, {})
           IN /\ Len(result.hits) <= cap
              /\ result.total = Len(Matches(queryType, input))

\* C7: for each of the four searches and every maxResults, the
\* result has at most maxResults hits (the default cap when none is given)
\* and its total is the number of matches before truncation.
C7_TruncatedToMaxResults ==
    \A queryType \in QueryTypes : \A input \in InputsOf(queryType) :
        \A maxResults \in MaxResultsArgs :
            WithinCap(queryType, input, maxResults)

\* two characters are the same letter, whatever their case
CasePairs == {<<"a", "A">>, <<"b", "B">>, <<"r", "R">>}
SameLetter(c, d) == c = d \/ <<c, d>> \in CasePairs \/ <<d, c>> \in CasePairs

\* name contains query, ignoring letter case
ContainsIgnoringCase(name, query) ==
    \E i \in 1..(Len(name) - Len(query) + 1) :
        \A j \in 1..Len(query) : SameLetter(name[i + j - 1], query[j])

\* query without its leading and trailing spaces
Stripped(query) ==
    LET solid == {i \in 1..Len(query) : query[i] # " "}
    IN IF solid = {} THEN <<>>
       ELSE SubSeq(query, CHOOSE i \in solid : \A j \in solid : i <= j,
                          CHOOSE i \in solid : \A j \in solid : i >= j)

PrimaryKeys(entries) == {entries[i].keyString : i \in 1..Len(entries)}

NameSearchFinds(query, wanted) ==
    LET found == NameMatches(IndexState, query)
    IN /\ Len(found) = Cardinality(PrimaryKeys(found))
       /\ PrimaryKeys(found) =
            {localIndexedDomainObjects[i].keyString :
                i \in {j \in 1..Len(localIndexedDomainObjects) :
                          ContainsIgnoringCase(localIndexedDomainObjects[j].name, wanted)}}

\* C8 (as claimed): the matches of a name search are exactly the entries of
\* the primary index whose name contains the query, ignoring letter case.
C8_NameSearchIsSubstringMatch ==
    \A query \in NameQueries : NameSearchFinds(query, query)

\* C8 (amended): ... whose name contains the query without its leading and
\* trailing white space, ignoring letter case.
C8_NameSearchIsTrimmedSubstringMatch ==
    \A query \in NameQueries : NameSearchFinds(query, Stripped(query))

\* with "Ab" and "ba" both indexed, a name search has been resolved with "Ab" alone
C8_CaseInsensitiveHitDelivered ==
    /\ {"a", "b"} \subseteq PrimaryKeys(localIndexedDomainObjects)
    /\ \E q \in QueryIds :
          /\ delivered[q] # <<>>
          /\ delivered[q][1].request = "searchForObjects"
          /\ delivered[q][1].hits = <<"a">>
          /\ delivered[q][1].total = 1

(***************************************************************************)
(* Properties of the indexer and of the change observers.                  *)
(***************************************************************************)
EntriesOf(lists) == UNION {{lists[x][i] : i \in 1..Len(lists[x])} : x \in DOMAIN lists}

\* every entry the backend holds, in the primary, target and tag indices
BackendEntries ==
    {localIndexedDomainObjects[i] : i \in 1..Len(localIndexedDomainObjects)}
        \cup EntriesOf(localIndexedAnnotationsByDomainObject)
        \cup EntriesOf(localIndexedAnnotationsByTag)

RootLoads == {t \in DOMAIN loading : t.key = ROOT}

\* C9: indexing the root gives the backend no entry for the root, so that no
\* search can return it; and when the load of the root's composition
\* resolves, scheduleForIndexing has been called for every child: each child
\* whose provider has no search of its own is then pending or indexed.
C9_RootTraversedNotSurfaced ==
    /\ \A e \in BackendEntries : e.keyString # ROOT
    /\ \A t \in RootLoads :
          LET st == ScheduleAll(SchedState, indexedIds, t.children)
          IN \A i \in 1..Len(t.children) :
                ~ProviderHasSearch(t.children[i]) =>
                    t.children[i] \in st.pendingIndex \cup indexedIds

\* the root has been indexed and its composition loaded: its children are
\* pending or indexed and the backend holds entries, none of them the root's
C9_RootIndexedChildrenScheduled ==
    /\ ROOT \in indexedIds
    /\ RootLoads = {}
    /\ "a" \in indexedIds
    /\ "b" \in pendingIndex
    /\ localIndexedDomainObjects # <<>>

\* the notification delivered in this step for parent k: its new child list
\* is the list the observer knows (the composition of the object it is bound
\* to) plus the one child x
AddsOneChild(k, x) ==
    /\ mutations' = mutations + 1
    /\ k \in indexedCompositions
    /\ store[k].composition = bound[k].composition
    /\ store'[k].composition = Append(bound[k].composition, x)

\* C10: a composition mutation that adds one child to the known list starts
\* the fetch of that child and of no other, and indexes nothing by itself.
C10_OnlyNewChildFetched ==
    [][\A k \in Keys : \A x \in Keys :
          AddsOneChild(k, x) =>
              /\ cmFetching' = BagAdd(cmFetching, x)
              /\ UNCHANGED <<indexVars, observerVars, schedVars, loading>>]_vars

(***************************************************************************)
(* End-to-end indexing.                                                    *)
(***************************************************************************)
RECURSIVE ReachableFrom(_, _)
ReachableFrom(ks, n) ==
    IF n = 0 THEN ks
    ELSE ReachableFrom(ks \cup UNION {SeqToSet(store[k].composition) : k \in ks}, n - 1)

\* the objects startIndexing is to have indexed: those reachable from the root
\* through composition and the loaded annotations, native-search ones excepted
ToBeIndexed ==
    {k \in ReachableFrom({ROOT}, Cardinality(Keys)) \cup SeqToSet(LoadedAnnotations) :
        ~ProviderHasSearch(k)}

\* k has been through index: its observers are registered and, unless it is
\* the root, the backend holds its entry
IsIndexed(k) ==
    /\ k \in indexedIds
    /\ k # ROOT => \E e \in BackendEntries : e.keyString = k

\* the name search "aB" on the present index: the message of the backend
SearchForAb == LocalSearchForObjects(IndexState, 0, <<"a", "B">>, DEFAULT_MAX_RESULTS).message

C12_IndexedAndPendingDisjoint == indexedIds \cap pendingIndex = {}

(***************************************************************************)
(* Tag search.                                                             *)
(***************************************************************************)
\* the lists of the tag-centric index for the tags, one after the other
RECURSIVE PerTagLists(_)
PerTagLists(tags) ==
    IF tags = <<>> THEN <<>>
    ELSE PerTagLists(SubSeq(tags, 1, Len(tags) - 1))
            \o localIndexedAnnotationsByTag[tags[Len(tags)]]

HasList(tag) == localIndexedAnnotationsByTag[tag] # <<>>

\* C13: for tag ids that each have a list in the tag-centric index, the tag
\* search yields the per-tag lists one after the other in the order of the
\* tag ids, nothing removed: total is the sum of their lengths, and an
\* annotation carrying two of the tags is there twice.
C13_TagSearchConcatenates ==
    \A tags \in TagInputs : \A maxResults \in 1..MaxMaxResults :
        (\A i \in 1..Len(tags) : HasList(tags[i])) =>
            LET message == LocalSearchForTags(IndexState, 0, tags, maxResults).message
            IN /\ message.total = Len(PerTagLists(tags))
               /\ message.results = Slice(PerTagLists(tags), maxResults)

\* with n (tags t1, t2) and m (tag t2) indexed in that order, a search for
\* the tags t2, t1 has been resolved with n, m, n and total 3
C13_AnnotationReturnedTwice ==
    \E q \in QueryIds :
        /\ delivered[q] # <<>>
        /\ delivered[q][1].request = "searchForTags"
        /\ delivered[q][1].hits = <<"n", "m", "n">>
        /\ delivered[q][1].total = 3

(***************************************************************************)
(* Teardown.                                                               *)
(***************************************************************************)
\* C14: every observer handle is called at most once, none before teardown,
\* and once teardown has run every registered handle has been called,
\* those registered by index calls that were in flight at teardown included.
C14_EveryHandleReleasedOnce ==
    /\ released \sqsubseteq registered
    /\ ~destroyed => released = EmptyBag
    /\ destroyed => released = registered

(***************************************************************************)
(* Properties of AnnotationAPI.                                            *)
(***************************************************************************)
\* the known annotation types: notebook, geospatial, pixelspatial, temporal, plotspatial
KnownAnnotationTypes == {ANNOTATION_TYPES[k] : k \in DOMAIN ANNOTATION_TYPES}

Creates == {i \in CallIds : calls[i].op = "create"}

SavedKeys == {saved[j].key : j \in 1..Len(saved)}
EmittedKeys == {emitted[j].key : j \in 1..Len(emitted)}

\* C15: a create with an annotation type that is not a known type is rejected
\* with the unknown-type error, saves nothing and emits nothing; a create
\* with a known type is not rejected with that error.
C15_UnknownTypeRejected ==
    \A i \in Creates :
        IF calls[i].annotationType \in KnownAnnotationTypes
        THEN calls[i].error # UnknownTypeError
        ELSE /\ calls[i].stage = "rejected"
             /\ calls[i].error = UnknownTypeError
             /\ i \notin SavedKeys \cup EmittedKeys

\* the saved annotations of the entry, and whether the first carries the tag
EntryAnnotations(call) ==
    SearchForAnnotationsByTargetByIDAndNotebookEntry(call.target, call.entryId)

CarriesTag(call) ==
    /\ EntryAnnotations(call) # <<>>
    /\ call.tag \in SeqToSet(saved[EntryAnnotations(call)[1]].tags)

\* the call made in this step is a create with an empty targets mapping
CreatesWithoutTargets ==
    /\ Len(calls') = Len(calls) + 1
    /\ calls'[Len(calls')].op = "create"
    /\ DOMAIN calls'[Len(calls')].targets = {}

\* call i resumes in this step after getNotebookAnnotation
ResumesAfterSearch(i) == calls[i].stage = "search" /\ calls'[i].stage # "search"

RejectedWith(call, errors) == call.stage = "rejected" /\ call.error \in errors

\* C16: a create with an empty targets mapping, a removeNotebookAnnotationTag
\* of a tag the entry's annotation does not carry or for an entry without an
\* annotation, and a changeNotebookAnnotationTag for an entry without an
\* annotation are each rejected with their error, and the step saves
\* nothing, changes no tags and emits nothing.
C16_InvalidRequestsRejected ==
    [][/\ CreatesWithoutTargets =>
            /\ RejectedWith(calls'[Len(calls')], {TargetRequiredError, UnknownTypeError})
            /\ UNCHANGED <<saved, emitted>>
       /\ \A i \in CallIds :
            /\ (/\ ResumesAfterSearch(i)
                /\ calls[i].op = "removeNotebookAnnotationTag"
                /\ ~CarriesTag(calls[i])) =>
                    /\ RejectedWith(calls'[i], {RemoveTagError})
                    /\ UNCHANGED <<saved, emitted>>
            /\ (/\ ResumesAfterSearch(i)
                /\ calls[i].op = "changeNotebookAnnotationTag"
                /\ EntryAnnotations(calls[i]) = <<>>) =>
                    /\ RejectedWith(calls'[i], {NoAnnotationError})
                    /\ UNCHANGED <<saved, emitted>>]_vars

\* the removal of tag t2 from the saved annotation of entry e1, which carries
\* t1 alone, has been rejected, and the annotation is as it was saved
C16_RemovalOfMissingTagRejected ==
    \E i \in CallIds :
        /\ calls[i].op = "removeNotebookAnnotationTag"
        /\ RejectedWith(calls[i], {RemoveTagError})
        /\ calls[i].object.key # 0
        /\ calls[i].tag = "t2"
        /\ Len(saved) = 1 /\ saved[1].tags = <<"t1">>
        /\ Len(emitted) = 1

EmittedFor(i) == Cardinality({j \in 1..Len(emitted) : emitted[j].key = i})

\* C17: a create is resolved exactly when the store has saved its object; it
\* is then resolved with that object and has emitted one annotationCreated
\* event carrying it; otherwise it has emitted none, and when save reports
\* failure it is rejected.
C17_ResolvedIffSaved ==
    \A i \in Creates :
        /\ (calls[i].stage = "resolved") = (i \in SavedKeys)
        /\ calls[i].stage = "resolved" =>
              /\ calls[i].object.key = i
              /\ EmittedFor(i) = 1
              /\ \E j \in 1..Len(emitted) : emitted[j] = calls[i].object
        /\ calls[i].stage # "resolved" => EmittedFor(i) = 0
        /\ calls[i].error = CreateError => calls[i].stage = "rejected"

\* one create has been resolved and has emitted its event, another has been
\* rejected because save reported failure
C17_OneCreatedOneFailed ==
    \E i, k \in Creates :
        /\ calls[i].stage = "resolved" /\ i \in SavedKeys
        /\ RejectedWith(calls[k], {CreateError})
        /\ Len(emitted) = 1 /\ emitted[1].key = i

(***************************************************************************)
(* Admission.                                                              *)
(***************************************************************************)
\* k is in the queue or its fetch is under way
Admitted(st, k) == k \in SeqToSet(st.idsToIndex) \/ BagCount(st.fetching, k) > 0

\* C18: scheduleForIndexing(k) enqueues k (k joins the pending set, and is
\* queued or begun) exactly when k is not indexed, not pending and its
\* provider has no search; otherwise the scheduler is left as it is.  An
\* identifier whose provider has a search is never pending, queued or fetched.
C18_EnqueuedIffEligible ==
    \A k \in Keys :
        LET after == ScheduleForIndexing(SchedState, indexedIds, k)
            eligible == k \notin indexedIds /\ k \notin pendingIndex
                            /\ k \notin NativeSearchKeys
        IN /\ eligible => /\ after.pendingIndex = pendingIndex \cup {k}
                           /\ Admitted(after, k)
           /\ ~eligible => after = SchedState
           /\ k \in NativeSearchKeys =>
                 k \notin pendingIndex /\ ~Admitted(SchedState, k)

\* the children a, b and s of the root have been scheduled: a and b wait in
\* the queue, s is nowhere in the scheduler
C18_NativeSearchChildSkipped ==
    /\ ROOT \in indexedIds /\ RootLoads = {}
    /\ idsToIndex = <<"a", "b">>
    /\ pendingIndex \cap {"a", "b", "s"} = {"a", "b"}
    /\ BagCount(fetching, "s") = 0

Position(seq, k) == CHOOSE i \in 1..Len(seq) : seq[i] = k

Begins(k) == BagCount(fetching', k) > BagCount(fetching, k)

\* C19: the queue is served in arrival order.  In every step, an identifier
\* leaves the queue only by having its fetch begun and only when every
\* identifier queued before it leaves too; those that stay keep their order
\* ahead of the arrivals; and an arrival begins only when the queue empties.
C19_QueueIsFifo ==
    [][LET old == idsToIndex
           new == idsToIndex'
       IN /\ \A i \in 1..Len(old) : old[i] \notin SeqToSet(new) => Begins(old[i])
          /\ \A i, j \in 1..Len(old) :
                i < j =>
                    /\ old[j] \notin SeqToSet(new) => old[i] \notin SeqToSet(new)
                    /\ {old[i], old[j]} \subseteq SeqToSet(new) =>
                            Position(new, old[i]) < Position(new, old[j])
          /\ \A k \in SeqToSet(new) \ SeqToSet(old) : \A i \in 1..Len(old) :
                old[i] \in SeqToSet(new) => Position(new, old[i]) < Position(new, k)
          /\ \A k \in Keys \ SeqToSet(old) :
                Begins(k) => SeqToSet(old) \cap SeqToSet(new) = {}]_vars

\* a and b were queued in that order; the fetch of a is under way while b waits
C19_FirstBegunSecondWaits ==
    /\ BagCount(fetching, "a") = 1
    /\ idsToIndex = <<"b">>
    /\ pendingRequests = MAX_CONCURRENT_REQUESTS

\* C20: between steps, a non-empty queue implies that the active count is at
\* the ceiling.
C20_WorkConserving ==
    idsToIndex # <<>> => pendingRequests = MAX_CONCURRENT_REQUESTS

\* timer callbacks have run and admitted work, none is outstanding, and the
\* queue is still not empty with the active count at the ceiling
C20_QueueWaitsAtCeiling ==
    /\ idsToIndex # <<>>
    /\ pendingRequests = MAX_CONCURRENT_REQUESTS
    /\ resuming = 0
    /\ timers = 0
    /\ failedFetches = EmptyBag
    /\ Cardinality(indexedIds) >= 2

(***************************************************************************)
(* Properties of the change observers over several notifications.          *)
(***************************************************************************)
PrimaryEntry(k) ==
    {localIndexedDomainObjects[i] :
        i \in {j \in 1..Len(localIndexedDomainObjects) :
                  localIndexedDomainObjects[j].keyString = k}}

\* C21: whatever index calls have been made for an identifier, by the
\* scheduler, by name mutations or after composition mutations, exactly one
\* name observer and one composition observer have been registered for it
\* if it has been indexed, and none otherwise.
C21_ObserversRegisteredOnce ==
    \A k \in Keys :
        LET n == IF k \in indexedIds THEN 1 ELSE 0
        IN /\ BagCount(registered, <<k, "name">>) = n
           /\ BagCount(registered, <<k, "composition">>) = n
           /\ (k \in indexedIds) = (k \in indexedCompositions)

\* index has run again for "a", for a name mutation: the payload is the new
\* name and the observers are the two of the first call
C21_IndexedAgainSameObservers ==
    /\ store["a"].name = <<"B", "a">>
    /\ PrimaryEntry("a") = {[keyString |-> "a", type |-> "folder", name |-> <<"B", "a">>]}
    /\ BagCount(registered, <<"a", "name">>) = 1
    /\ BagCount(registered, <<"a", "composition">>) = 1
    /\ mutations >= 1

\* the number of entries of k in a list of entries
EntryCount(entries, k) == Cardinality({i \in 1..Len(entries) : entries[i].keyString = k})

\* the number of entries of k in the primary, target-centric and tag-centric indices
EntryCounts(ix, k) ==
    [primary |-> EntryCount(ix.objects, k),
     byTarget |-> [t \in DOMAIN ix.byTarget |-> EntryCount(ix.byTarget[t], k)],
     byTag |-> [t \in DOMAIN ix.byTag |-> EntryCount(ix.byTag[t], k)]]

IndexStateAfter ==
    [objects |-> localIndexedDomainObjects',
     byTarget |-> localIndexedAnnotationsByDomainObject',
     byTag |-> localIndexedAnnotationsByTag']

EntriesIn(ix) ==
    {ix.objects[i] : i \in 1..Len(ix.objects)}
        \cup EntriesOf(ix.byTarget) \cup EntriesOf(ix.byTag)

\* the step is the notification of a new name for the indexed object k
Renames(k) == k \in indexedIds /\ store'[k].name # store[k].name

\* C22: a name-mutation notification for an indexed object leaves the number
\* of its entries in each of the three indices as it was, and every entry of
\* the object then carries the new name.
C22_SnapshotReplacedInPlace ==
    [][\A k \in Keys :
          Renames(k) =>
              /\ EntryCounts(IndexStateAfter, k) = EntryCounts(IndexState, k)
              /\ \A e \in EntriesIn(IndexStateAfter) :
                    e.keyString = k => e.name = store'[k].name]_vars

\* the step is a composition-mutation notification for the object k
Notifies(k) == store'[k].composition # store[k].composition

\* the identifiers of the new list that are equal, by value, to none of the old list
AbsentFrom(old, new) ==
    SelectSeq(new, LAMBDA identifier :
                       ~\E i \in 1..Len(old) : AreIdsEqual(identifier, old[i]))

\* C23: a composition-mutation notification for k starts the fetch of exactly
\* the identifiers of its new list that are absent from the list delivered by
\* the previous notification for k (or the list k had when it was first
\* indexed), once each, and of no identifier of that previous list.
C23_DiffAgainstPreviousList ==
    [][\A k \in Keys :
          Notifies(k) =>
              cmFetching' = BagAddAll(cmFetching,
                                     AbsentFrom(store[k].composition,
                                                store'[k].composition))]_vars

\* the hits of a search for the one tag in the index as it is
TagSearchHits(tag) == LocalSearchForTags(IndexState, 0, <<tag>>, DEFAULT_MAX_RESULTS).message.results

\* the annotation k is once in the target-centric list of each of its targets
\* and once in the tag-centric list of each of its tags, and a search for one
\* of its tags has it as one hit, with its targets
InTargetAndTagIndexOnce(k) ==
    /\ \A t \in Keys :
          EntryCount(localIndexedAnnotationsByDomainObject[t], k)
              = IF t \in DOMAIN AnnotationTargets(k) THEN 1 ELSE 0
    /\ \A tag \in Tags :
          EntryCount(localIndexedAnnotationsByTag[tag], k)
              = IF tag \in SeqToSet(AnnotationTags(k)) THEN 1 ELSE 0
    /\ \A tag \in SeqToSet(AnnotationTags(k)) :
          /\ EntryCount(TagSearchHits(tag), k) = 1
          /\ \A i \in 1..Len(TagSearchHits(tag)) :
                TagSearchHits(tag)[i].keyString = k =>
                    DOMAIN TagSearchHits(tag)[i].targets = DOMAIN AnnotationTargets(k)

\* C24: an annotation that has been indexed has one entry in the primary
\* index, one in the target-centric list of each of its targets and one in
\* the tag-centric list of each of its tags, and a search for one of its tags
\* returns it as one hit whose targets are its targets.
C24_AnnotationInEveryIndex ==
    \A k \in AnnotationKeys :
        k \in indexedIds =>
            /\ EntryCount(localIndexedDomainObjects, k) = 1
            /\ InTargetAndTagIndexOnce(k)

\* the entry is an annotation of the notebook entry entryId of the target
OfEntry(e, targetKeyString, entryId) ==
    /\ targetKeyString \in DOMAIN e.targets
    /\ "entryId" \in DOMAIN e.targets[targetKeyString]
    /\ e.targets[targetKeyString].entryId = entryId

\* C25: a notebook-entry search for (entryId, targetKeyString) yields the
\* entries of the target-centric list of targetKeyString whose target record
\* for it has that entryId, in the order of the list, and no entry whose
\* entryId differs or is missing; total is their number.
C25_NotebookSearchFiltersByEntry ==
    \A input \in NotebookInputs : \A maxResults \in 1..MaxMaxResults :
        LET message == LocalSearchForNotebookAnnotations(IndexState, 0, input,
                                                         maxResults).message
            expected == SelectSeq(localIndexedAnnotationsByDomainObject[input.targetKeyString],
                                  LAMBDA e : OfEntry(e, input.targetKeyString, input.entryId))
        IN /\ message.total = Len(expected)
           /\ message.results = Slice(expected, maxResults)

\* with n (entry e1 of a) and q (no entry) indexed under a, the search for
\* entry e1 of a has been resolved with n alone
C25_OnlyTheEntryReturned ==
    \E i \in QueryIds :
        /\ delivered[i] # <<>>
        /\ delivered[i][1].request = "searchForNotebookAnnotations"
        /\ delivered[i][1].hits = <<"n">>
        /\ delivered[i][1].total = 1
        /\ EntryCount(localIndexedAnnotationsByDomainObject["a"], "n") = 1
        /\ EntryCount(localIndexedAnnotationsByDomainObject["a"], "q") = 1

IsPrefix(a, b) == Len(a) <= Len(b) /\ SubSeq(b, 1, Len(a)) = a

\* C26: while the provider runs, no step takes a keyString out of the indexed
\* set, an entry of an object out of the primary index, or an entry out of a
\* list of the target-centric or tag-centric index: the lists only grow at
\* their end, also when a composition mutation removes children.
C26_EntriesOnlyAccumulate ==
    [][/\ indexedIds \subseteq indexedIds'
       /\ indexedCompositions \subseteq indexedCompositions'
       /\ \A k \in Keys :
             EntryCount(localIndexedDomainObjects', k) >= EntryCount(localIndexedDomainObjects, k)
       /\ \A t \in Keys :
             IsPrefix(localIndexedAnnotationsByDomainObject[t],
                      localIndexedAnnotationsByDomainObject'[t])
       /\ \A tag \in Tags :
             IsPrefix(localIndexedAnnotationsByTag[tag], localIndexedAnnotationsByTag'[tag])]_vars

\* the children s and b have been removed from the composition of the root,
\* and b is still indexed and found by a search for its name
C26_RemovedChildStillFound ==
    /\ store[ROOT].composition = <<"a">>
    /\ IsIndexed("b")
    /\ Hits(LocalSearchForObjects(IndexState, 0, <<"b", "a">>, DEFAULT_MAX_RESULTS).message)
            = <<"b">>

\* the backend answers with the empty result: a message with total 0 and no results
AnswersEmpty(r) == ~r.threw /\ r.message.total = 0 /\ r.message.results = <<>>

\* C27: a search for the annotations of a target that has no indexed
\* annotation, and a search for a tag that has no indexed annotation, are
\* each answered with total 0 and no hits, so that the caller's promise is
\* resolved with the empty result; neither throws.
C27_SearchWithoutAnnotationsIsEmpty ==
    /\ \A target \in TargetInputs :
          localIndexedAnnotationsByDomainObject[target] = <<>> =>
              AnswersEmpty(LocalSearchForAnnotations(IndexState, 0, target,
                                                     DEFAULT_MAX_RESULTS))
    /\ \A tag \in Tags :
          localIndexedAnnotationsByTag[tag] = <<>> =>
              AnswersEmpty(LocalSearchForTags(IndexState, 0, <<tag>>, DEFAULT_MAX_RESULTS))

\* the step is a composition-mutation notification that starts a fetch of k
StartsMutationFetch(k) == BagCount(cmFetching', k) > BagCount(cmFetching, k)

\* C28: a composition-mutation notification starts the fetch of an identifier
\* only if the identifier is neither indexed, nor queued or being fetched by
\* the scheduler, nor already being fetched for an earlier notification, so
\* that the two paths together fetch an identifier for indexing at most once.
C28_MutationFetchesOnlyNewIdentifiers ==
    [][\A k \in Keys :
          StartsMutationFetch(k) =>
              /\ k \notin indexedIds
              /\ k \notin pendingIndex
              /\ BagCount(fetching, k) = 0
              /\ BagCount(cmFetching, k) = 0]_vars

(***************************************************************************)
(* ConfigStore.                                                            *)
(***************************************************************************)
\* the ids whose entry the step removes from the store
RemovedIds == DOMAIN configStore \ DOMAIN configStore'

\* the step calls destroy once on each config it removes that has a destroy
\* method, and on no other config
DestroysWhatItRemoves ==
    \A c \in Configs :
        destroyCalls'[c] - destroyCalls[c]
            = IF HasDestroy(c) /\ (\E id \in RemovedIds : configStore[id] = c)
                  /\ (\A id \in DOMAIN configStore' : configStore'[id] # c)
              THEN 1 ELSE 0

\* what a call of the ConfigStore does, as a step
ConfigStoreContract ==
    /\ DestroysWhatItRemoves
    /\ lastCall'.op = "deleteAll" => DOMAIN configStore' = {}
    /\ lastCall'.op = "deleteStore" =>
          /\ RemovedIds \subseteq {lastCall'.id}
          /\ lastCall'.id \notin DOMAIN configStore =>
                configStore' = configStore /\ destroyCalls' = destroyCalls
    /\ lastCall'.op = "get" =>
          /\ returned' = added[lastCall'.id]
          /\ configStore' = configStore /\ destroyCalls' = destroyCalls

\* every stored config is an object, stored under one id
OneIdPerObject ==
    \A id \in DOMAIN configStore :
        /\ Truthy(configStore[id])
        /\ \A other \in DOMAIN configStore \ {id} : configStore[other] # configStore[id]

\* C29 (as stated): every call of deleteStore and deleteAll calls destroy once
\* on each config it removes (if it has a destroy method) and never on a
\* config that stays in the store, deleteAll leaves the store empty,
\* deleteStore of an unknown id changes nothing, and get(id) returns the
\* config most recently added under id and not deleted since.
C29_ConfigStoreContractAlways == [][ConfigStoreContract]_vars

\* C29 (amended): the same, for a call made while every stored config is an
\* object (not null) and no config is stored under two ids.
C29_ConfigStoreContractForObjects == [][OneIdPerObject => ConfigStoreContract]_vars

\* c1 was added under x and c2 under y, and deleteAll has emptied the store
\* and called destroy once on each
C29_BothDestroyedOnce ==
    /\ lastCall.op = "deleteAll"
    /\ ops = 3
    /\ DOMAIN configStore = {}
    /\ destroyCalls = [c \in Configs |-> IF c \in {"c1", "c2"} THEN 1 ELSE 0]

====
